---------------------------- MODULE Spec2Model ----------------------------
(***************************************************************************)
(* A model of main.py: a PyWebIO chat whose sessions share one PostgreSQL  *)
(* database (tables users, messages, friends, private_messages) and one    *)
(* in-process set online_users.                                            *)
(*                                                                         *)
(* The database server interleaves the transactions of different           *)
(* connections, so save_message is two steps.  The first opens the         *)
(* transaction: a row's created_at DEFAULT NOW() is the time at which its  *)
(* transaction began.  The second is INSERT and COMMIT: the row takes its  *)
(* id from the SERIAL sequence and becomes visible to other connections.   *)
(* (No query of the program reads an id, so the order of ids against the   *)
(* order of commits is not observable and the two are one step.)  Code     *)
(* that touches only the session's own widgets is folded into the          *)
(* database step next to it.  With the two steps one, ids count the        *)
(* commits.  Sessions are interchangeable, and so are accounts: sessions   *)
(* log in in the order of their numbers, each to an account already in use *)
(* or to the first one not in use.                                         *)
(***************************************************************************)
EXTENDS Integers, Sequences, FiniteSets, Bags, TLC

(* ------------------------------ bounds -------------------------------- *)

\* browser sessions running main()
NumSessions == 2

\* save_message calls of a run
MaxMessages == 3

\* save_private_message calls of a run
MaxPrivate == 1

\* rows of the friends table
MaxFriends == 2

\* largest reading of the database clock that Tick produces
MaxClock == 1

\* rows of messages beyond HistoryLimit in the databases of SpecHistory
HistoryExtra == 1

\* rows of the users table in SpecRegister
MaxUsers == 2

(* ------------------------- program constants -------------------------- *)

\* the username of announcements, the megaphone emoji of the source
SYSTEM == "sys"

\* '2020-01-01', the cursor of a poll loop started on an empty table:
\* a time before every reading of the clock
Epoch == -1

\* LIMIT 100 of load_messages
HistoryLimit == 100

\* INTERVAL '24 hours' of load_messages and load_private_messages, in ticks
\* of the clock, a tick being a minute
RetentionWindow == 24 * 60

Sessions == 1 .. NumSessions

(* ------------------------------- state -------------------------------- *)

VARIABLES
  now,            \* the database server's clock
  users,          \* table users: id -> [email, display_name]
  messages,       \* table messages: the committed rows
  messages_id_seq,\* the SERIAL sequence of messages.id: the next value
  friends,        \* table friends: a bag of pairs << user_id, friend_id >>
  add_result,     \* manage_friends: what the last add_friend call reported
  private_messages,        \* table private_messages: the committed rows
  private_messages_id_seq, \* the SERIAL sequence of private_messages.id
  online_users,   \* the global set online_users
  pc,             \* where each session's main() stands
  current_user,   \* main's current_user: a users id, 0 before login
  txn,            \* each session's open save_message transaction
  refresh,        \* each session's refresh_msgs task
  last_time,      \* refresh_msgs' cursor last_time
  msg_box,        \* each session's msg_box of the public chat, in order
  private_chat,   \* open_private_chat's friend_id, 0 outside a private chat
  private_box,    \* open_private_chat's msg_box, in order
  delivered,      \* history: the rows each session's poll loop emitted
  init_seq,       \* history: the sequence's next value when the poll loop
                  \* read its first cursor
  saves           \* history: the save_message calls begun in this run

publicVars == << messages, messages_id_seq, online_users, txn, refresh, last_time,
                 msg_box, delivered, init_seq, saves >>

privateVars == << friends, add_result, private_messages,
                  private_messages_id_seq, private_chat, private_box >>

vars == << now, users, pc, current_user, publicVars, privateVars >>

(* ------------------------------ helpers ------------------------------- *)

MaxOf(S) == CHOOSE x \in S : \A y \in S : y <= x

Last(q) == q[Len(q)]

Take(q, n) == IF Len(q) <= n THEN q ELSE SubSeq(q, 1, n)

Range(q) == { q[i] : i \in 1 .. Len(q) }

\* ORDER BY created_at ASC: every order of the rows that is ascending in
\* created_at (SQL leaves the order of rows with equal keys open).  A row
\* stands between place lo and place hi; rows with equal keys share places.
OrderByCreatedAt(rows) ==
  LET n == Cardinality(rows)
      lo == [m \in rows |-> 1 + Cardinality({ k \in rows : k.created_at < m.created_at })]
      hi == [m \in rows |-> Cardinality({ k \in rows : k.created_at <= m.created_at })]
      tied == { m \in rows : lo[m] < hi[m] }
      slots == { i \in 1 .. n : \E m \in tied : lo[m] <= i /\ i <= hi[m] }
      places == { p \in [tied -> slots] :
                    \A m \in tied : /\ lo[m] <= p[m] /\ p[m] <= hi[m]
                                    /\ \A k \in tied \ {m} : p[k] # p[m] }
  IN  { [ i \in 1 .. n |-> IF i \in slots THEN CHOOSE m \in tied : p[m] = i
                                         ELSE CHOOSE m \in rows : lo[m] = i ] :
        p \in places }

NoTxn == [open |-> FALSE, username |-> "", text |-> <<>>, created_at |-> 0]

display_name(s) == users[current_user[s]].display_name

JoinText(name) == << "joined", name >>
LeftText(name) == << "left", name >>
ClearedText == << "cleared" >>
Texts == { << "hi" >> }

(* ------------------------------ database ------------------------------ *)

\* the registered accounts
UsersTable ==
  [ u \in 1 .. 3 |->
      [ email |-> u,
        display_name |-> IF u = 1 THEN "ann" ELSE IF u = 2 THEN "bob" ELSE "cat" ] ]

\* WHERE created_at >= NOW() - INTERVAL '24 hours'
InWindow(m) == m.created_at >= now - RetentionWindow

\* load_messages' query
load_messages ==
  { Take(q, HistoryLimit) : q \in OrderByCreatedAt({ m \in messages : InWindow(m) }) }

\* the query, had it been written with >= for >
NewMessagesFromCursor(cursor) ==
  OrderByCreatedAt({ m \in messages : m.created_at >= cursor })

\* refresh_msgs' query for the rows after the cursor
NewMessages(cursor) ==
  OrderByCreatedAt({ m \in messages : m.created_at > cursor })

\* SELECT MAX(created_at) FROM messages, or '2020-01-01'
InitialCursor ==
  IF messages = {} THEN Epoch ELSE MaxOf({ m.created_at : m \in messages })

\* get_friends: the rows of friends whose user_id is the user's
get_friends(user_id) ==
  { f \in DOMAIN users : BagIn(<< user_id, f >>, friends) }

\* add_friend, had the table no primary key
add_friend_without_key(user_id, friend_id) ==
  IF user_id = friend_id
    THEN [ ok |-> FALSE, friends |-> friends ]
    ELSE [ ok |-> TRUE,
           friends |-> friends (+) SetToBag({ << user_id, friend_id >> }) ]

\* add_friend: what it returns and the table it leaves.  PRIMARY KEY
\* (user_id, friend_id) refuses the INSERT of a pair the table holds
\* (IntegrityError, rollback).
add_friend(user_id, friend_id) ==
  IF user_id = friend_id
    THEN [ ok |-> FALSE, friends |-> friends ]
    ELSE IF BagIn(<< user_id, friend_id >>, friends)
           THEN [ ok |-> FALSE, friends |-> friends ]
           ELSE [ ok |-> TRUE,
                  friends |-> friends (+) SetToBag({ << user_id, friend_id >> }) ]

\* the query, had it named the friend and not the user
load_private_messages_of_friend(user_id, friend_id) ==
  OrderByCreatedAt(
    { m \in private_messages :
        \/ m.receiver_id = friend_id
        \/ m.sender_id = friend_id /\ InWindow(m) })

\* load_private_messages' query.  AND binds tighter than OR: the window
\* applies to the rows the friend sent, not to the user's own.
load_private_messages(user_id, friend_id) ==
  OrderByCreatedAt(
    { m \in private_messages :
        \/ m.sender_id = user_id /\ m.receiver_id = friend_id
        \/ m.sender_id = friend_id /\ m.receiver_id = user_id /\ InWindow(m) })

\* what a row of a history load or of a poll shows in a msg_box: username
\* and text, and for the record the row's table, id and created_at
Rendered(via, batch) ==
  [ i \in 1 .. Len(batch) |->
      [ via |-> via, username |-> batch[i].username, text |-> batch[i].text,
        tbl |-> batch[i].tbl, id |-> batch[i].id,
        created_at |-> batch[i].created_at ] ]

\* what main and confirm_and_clear show of a message of the session's own;
\* id is 0 where the message is shown before it is saved
Local(username, text, id) ==
  << [ via |-> "local", username |-> username, text |-> text,
       tbl |-> "messages", id |-> id, created_at |-> 0 ] >>

\* what open_private_chat shows of a loaded row: sender_name and is_own, and
\* for the record the row's table, id and parties
RenderedPrivate(batch, user_id) ==
  [ i \in 1 .. Len(batch) |->
      [ via |-> "history", text |-> batch[i].text,
        sender_name |-> users[batch[i].sender_id].display_name,
        is_own |-> (batch[i].sender_id = user_id),
        tbl |-> batch[i].tbl, id |-> batch[i].id,
        sender_id |-> batch[i].sender_id, receiver_id |-> batch[i].receiver_id,
        created_at |-> batch[i].created_at ] ]

\* the database clock advances.  Every committed row and every cursor is
\* older than the clock (see CommitSave), so a tick changes the order of
\* timestamps only while an open transaction holds the current reading.
Tick ==
  /\ now < MaxClock
  /\ \E s \in Sessions : txn[s].open /\ txn[s].created_at = now
  /\ now' = now + 1
  /\ UNCHANGED << users, pc, current_user, publicVars, privateVars >>

\* save_message, first step: the transaction of the INSERT begins, which
\* fixes NOW()
BeginSave(s, username, text) ==
  /\ saves < MaxMessages
  /\ saves' = saves + 1
  /\ txn' = [txn EXCEPT ![s] = [open |-> TRUE, username |-> username,
                                text |-> text, created_at |-> now]]

\* save_message, second step: INSERT and COMMIT.  The row takes the sequence's
\* next id and becomes visible; the commit ends later than the transaction
\* began, at the clock's resolution.
CommitSave(s) ==
  /\ txn[s].open
  /\ messages' = messages \cup
       { [ tbl |-> "messages", id |-> messages_id_seq, username |-> txn[s].username,
           text |-> txn[s].text, created_at |-> txn[s].created_at ] }
  /\ messages_id_seq' = messages_id_seq + 1
  /\ now' = IF now > txn[s].created_at THEN now ELSE txn[s].created_at + 1
  /\ txn' = [txn EXCEPT ![s] = NoTxn]

(* ------------------------------- main() ------------------------------- *)

\* lines 350-377: the login succeeds as user u, the name is added to
\* online_users, the history is loaded and shown, and save_message of the
\* join announcement begins
Join(s, u) ==
  /\ pc[s] = "login"
  /\ IF s = 1 THEN TRUE ELSE pc[s - 1] # "login"
  /\ u <= 1 + MaxOf({ current_user[o] : o \in Sessions })
  /\ current_user' = [current_user EXCEPT ![s] = u]
  /\ online_users' = online_users \cup { users[u].display_name }
  /\ \E h \in load_messages :
       msg_box' = [msg_box EXCEPT ![s] = Rendered("history", h)]
  /\ BeginSave(s, SYSTEM, JoinText(users[u].display_name))
  /\ pc' = [pc EXCEPT ![s] = "joining"]
  /\ UNCHANGED << now, users, messages, messages_id_seq, refresh, last_time,
                  delivered, init_seq, privateVars >>

\* lines 377-380: the join announcement is committed and shown, and the poll
\* loop is started with run_async
JoinCommit(s) ==
  /\ pc[s] = "joining"
  /\ CommitSave(s)
  /\ msg_box' = [msg_box EXCEPT ![s] =
                   @ \o Local(SYSTEM, JoinText(display_name(s)), messages_id_seq)]
  /\ refresh' = [refresh EXCEPT ![s] = "start"]
  /\ pc' = [pc EXCEPT ![s] = "chat"]
  /\ UNCHANGED << users, online_users, current_user, last_time, delivered,
                  init_seq, saves, privateVars >>

\* lines 403-404: the message is shown in the sender's box, then save_message
\* begins
Send(s, text) ==
  /\ pc[s] = "chat"
  /\ msg_box' = [msg_box EXCEPT ![s] = @ \o Local(display_name(s), text, 0)]
  /\ BeginSave(s, display_name(s), text)
  /\ pc' = [pc EXCEPT ![s] = "sending"]
  /\ UNCHANGED << now, users, messages, messages_id_seq, online_users,
                  current_user, refresh, last_time, delivered, init_seq,
                  privateVars >>

\* line 404, save_message's commit
SendCommit(s) ==
  /\ pc[s] = "sending"
  /\ CommitSave(s)
  /\ pc' = [pc EXCEPT ![s] = "chat"]
  /\ UNCHANGED << users, online_users, current_user, refresh, last_time,
                  msg_box, delivered, init_seq, saves, privateVars >>

\* confirm_and_clear, confirmed: clear_chat deletes every committed row, the
\* box is cleared, and save_message of the announcement begins
Clear(s) ==
  /\ pc[s] = "chat"
  /\ messages' = {}
  /\ msg_box' = [msg_box EXCEPT ![s] = <<>>]
  /\ BeginSave(s, SYSTEM, ClearedText)
  /\ pc' = [pc EXCEPT ![s] = "clearing"]
  /\ UNCHANGED << now, users, messages_id_seq, online_users, current_user,
                  refresh, last_time, delivered, init_seq, privateVars >>

\* lines 327-328: the announcement is committed, then shown
ClearCommit(s) ==
  /\ pc[s] = "clearing"
  /\ CommitSave(s)
  /\ msg_box' = [msg_box EXCEPT ![s] = @ \o Local(SYSTEM, ClearedText, messages_id_seq)]
  /\ pc' = [pc EXCEPT ![s] = "chat"]
  /\ UNCHANGED << users, online_users, current_user, refresh, last_time,
                  delivered, init_seq, saves, privateVars >>

\* the leave, had it not closed the poll loop
LeaveWithoutClose(s) ==
  /\ pc[s] = "chat"
  /\ online_users' = online_users \ { display_name(s) }
  /\ BeginSave(s, SYSTEM, LeftText(display_name(s)))
  /\ pc' = [pc EXCEPT ![s] = "leaving"]
  /\ UNCHANGED << now, users, messages, messages_id_seq, current_user, refresh,
                  last_time, msg_box, delivered, init_seq, privateVars >>

\* lines 393-408: the poll loop is closed, the name leaves online_users, and
\* save_message of the leave announcement begins
Leave(s) ==
  /\ pc[s] = "chat"
  /\ refresh' = [refresh EXCEPT ![s] = "closed"]
  /\ online_users' = online_users \ { display_name(s) }
  /\ BeginSave(s, SYSTEM, LeftText(display_name(s)))
  /\ pc' = [pc EXCEPT ![s] = "leaving"]
  /\ UNCHANGED << now, users, messages, messages_id_seq, current_user,
                  last_time, msg_box, delivered, init_seq, privateVars >>

\* line 408, save_message's commit
LeaveCommit(s) ==
  /\ pc[s] = "leaving"
  /\ CommitSave(s)
  /\ pc' = [pc EXCEPT ![s] = "left"]
  /\ UNCHANGED << users, online_users, current_user, refresh, last_time,
                  msg_box, delivered, init_seq, saves, privateVars >>

(* --------------------------- refresh_msgs ----------------------------- *)

\* lines 294-299: the task's first step reads the newest created_at
RefreshInit(s) ==
  /\ refresh[s] = "start"
  /\ refresh' = [refresh EXCEPT ![s] = "polling"]
  /\ last_time' = [last_time EXCEPT ![s] = InitialCursor]
  /\ init_seq' = [init_seq EXCEPT ![s] =
                    [ messages |-> messages_id_seq,
                      private_messages |-> private_messages_id_seq ]]
  /\ UNCHANGED << now, users, messages, messages_id_seq, online_users, pc,
                  current_user, txn, msg_box, delivered, saves, privateVars >>

\* the loop, had it shown every row of the batch
EmittedAll(batch, my_name) == batch

\* the rows of a batch the loop shows: those of other senders
Emitted(batch, my_name) ==
  LET other(m) == m.username # my_name IN SelectSeq(batch, other)

\* the loop, had it read the cursor anew from the table after each batch
CursorAfterNewest(cursor, batch, my_name) == InitialCursor

\* last_time after the loop over a batch: line 316 stands inside the if
CursorAfter(cursor, batch, my_name) ==
  LET shown == Emitted(batch, my_name)
  IN  IF shown = <<>> THEN cursor ELSE Last(shown).created_at

\* lines 300-316: one round of the loop
Poll(s) ==
  /\ refresh[s] = "polling"
  /\ \E batch \in NewMessages(last_time[s]) :
       /\ msg_box' = [msg_box EXCEPT ![s] =
                        @ \o Rendered("poll", Emitted(batch, display_name(s)))]
       /\ delivered' = [delivered EXCEPT ![s] = @ \o Emitted(batch, display_name(s))]
       /\ last_time' = [last_time EXCEPT ![s] = CursorAfter(@, batch, display_name(s))]
  /\ UNCHANGED << now, users, messages, messages_id_seq, online_users, pc,
                  current_user, txn, refresh, init_seq, saves, privateVars >>

(* ------------------- manage_friends, open_private_chat ----------------- *)

\* manage_friends, "search and add": search_users leaves out the user's own
\* id; add_friend inserts the pair, and the primary key refuses a second one
AddFriend(s, f) ==
  /\ pc[s] = "chat"
  /\ f \in DOMAIN users \ { current_user[s] }
  /\ BagCardinality(friends) < MaxFriends
  /\ LET result == add_friend(current_user[s], f)
     IN  /\ friends' = result.friends
         /\ add_result' = [add_result EXCEPT ![s] =
                             IF result.ok THEN "added" ELSE "exists"]
  /\ UNCHANGED << now, users, pc, current_user, publicVars, private_messages,
                  private_messages_id_seq, private_chat, private_box >>

\* manage_friends, "my friends", and lines 214-226: a friend of get_friends is
\* selected and the private chat with it is loaded and shown
OpenPrivateChat(s, f) ==
  /\ pc[s] = "chat"
  /\ f \in get_friends(current_user[s])
  /\ private_chat' = [private_chat EXCEPT ![s] = f]
  /\ \E h \in load_private_messages(current_user[s], f) :
       private_box' = [private_box EXCEPT ![s] = RenderedPrivate(h, current_user[s])]
  /\ pc' = [pc EXCEPT ![s] = "private"]
  /\ UNCHANGED << now, users, current_user, publicVars, friends, add_result,
                  private_messages, private_messages_id_seq >>

\* lines 249-250: save_private_message, then the text is shown as the
\* user's own.  No query reads private_messages by a cursor, so the
\* transaction is one step; it ends later than it began.
PrivateSend(s, text) ==
  /\ pc[s] = "private"
  /\ private_messages_id_seq <= MaxPrivate
  /\ private_messages' = private_messages \cup
       { [ tbl |-> "private_messages", id |-> private_messages_id_seq,
           sender_id |-> current_user[s], receiver_id |-> private_chat[s],
           text |-> text, created_at |-> now ] }
  /\ private_messages_id_seq' = private_messages_id_seq + 1
  /\ now' = now + 1
  /\ private_box' = [private_box EXCEPT ![s] = @ \o
       << [ via |-> "local", text |-> text, sender_name |-> display_name(s),
            is_own |-> TRUE, tbl |-> "private_messages",
            id |-> private_messages_id_seq, sender_id |-> current_user[s],
            receiver_id |-> private_chat[s], created_at |-> now ] >>]
  /\ UNCHANGED << users, pc, current_user, publicVars, friends, add_result,
                  private_chat >>

\* lines 241-247, confirmed: clear_private_chat deletes the rows between the
\* two users in both directions, and the box is cleared
PrivateClear(s) ==
  /\ pc[s] = "private"
  /\ private_messages' =
       { m \in private_messages :
           ~ \/ m.sender_id = current_user[s] /\ m.receiver_id = private_chat[s]
             \/ m.sender_id = private_chat[s] /\ m.receiver_id = current_user[s] }
  /\ private_box' = [private_box EXCEPT ![s] = <<>>]
  /\ UNCHANGED << now, users, pc, current_user, publicVars, friends, add_result,
                  private_messages_id_seq, private_chat >>

\* lines 238-239: "back" leaves the private chat for the public one
ClosePrivateChat(s) ==
  /\ pc[s] = "private"
  /\ pc' = [pc EXCEPT ![s] = "chat"]
  /\ private_chat' = [private_chat EXCEPT ![s] = 0]
  /\ private_box' = [private_box EXCEPT ![s] = <<>>]
  /\ UNCHANGED << now, users, current_user, publicVars, friends, add_result,
                  private_messages, private_messages_id_seq >>

(* --------------------------- specifications --------------------------- *)

Init ==
  /\ now = 0
  /\ users = UsersTable
  /\ messages = {}
  /\ messages_id_seq = 1
  /\ friends = EmptyBag
  /\ add_result = [s \in Sessions |-> "none"]
  /\ private_messages = {}
  /\ private_messages_id_seq = 1
  /\ online_users = {}
  /\ pc = [s \in Sessions |-> "login"]
  /\ current_user = [s \in Sessions |-> 0]
  /\ txn = [s \in Sessions |-> NoTxn]
  /\ refresh = [s \in Sessions |-> "none"]
  /\ last_time = [s \in Sessions |-> Epoch]
  /\ msg_box = [s \in Sessions |-> <<>>]
  /\ private_chat = [s \in Sessions |-> 0]
  /\ private_box = [s \in Sessions |-> <<>>]
  /\ delivered = [s \in Sessions |-> <<>>]
  /\ init_seq = [s \in Sessions |-> [messages |-> 0, private_messages |-> 0]]
  /\ saves = 0

\* the public chat
Next ==
  \/ Tick
  \/ \E s \in Sessions :
       \/ \E u \in DOMAIN users : Join(s, u)
       \/ JoinCommit(s)
       \/ RefreshInit(s)
       \/ Poll(s)
       \/ \E text \in Texts : Send(s, text)
       \/ SendCommit(s)
       \/ Clear(s)
       \/ ClearCommit(s)
       \/ Leave(s)
       \/ LeaveCommit(s)

Spec == Init /\ [][Next]_vars

\* sessions that join and poll the public chat and use the friends menu and
\* the private chats
NextPrivate ==
  \E s \in Sessions :
       \/ \E u \in DOMAIN users : Join(s, u)
       \/ JoinCommit(s)
       \/ RefreshInit(s)
       \/ Poll(s)
       \/ \E f \in DOMAIN users : AddFriend(s, f)
       \/ \E f \in DOMAIN users : OpenPrivateChat(s, f)
       \/ \E text \in Texts : PrivateSend(s, text)
       \/ PrivateClear(s)
       \/ ClosePrivateChat(s)

SpecPrivate == Init /\ [][NextPrivate]_vars

(* ---------------------- disconnects and failures ---------------------- *)

\* lines 382-391 and 229-236: the browser goes away while main waits for
\* input.  The session's coroutines are closed where they wait; main has no
\* try or finally, so nothing of lines 406-408 runs.
Disconnect(s) ==
  /\ pc[s] \in { "chat", "private" }
  /\ pc' = [pc EXCEPT ![s] = "gone"]
  /\ refresh' = [refresh EXCEPT ![s] = "closed"]
  /\ UNCHANGED << now, users, current_user, messages, messages_id_seq,
                  online_users, txn, last_time, msg_box, delivered, init_seq,
                  saves, privateVars >>

\* the sessions of the public chat, which may disconnect
NextDisconnect ==
  \/ Next
  \/ \E s \in Sessions : Disconnect(s)

SpecDisconnect == Init /\ [][NextDisconnect]_vars

\* save_message raises (the database is unreachable, the INSERT fails):
\* nothing is committed, and the exception leaves main, which catches
\* nothing after the login; the poll loop is a task of its own, and goes on
\* or ends with the session
SaveFail(s) ==
  /\ txn[s].open
  /\ txn' = [txn EXCEPT ![s] = NoTxn]
  /\ pc' = [pc EXCEPT ![s] = "failed"]
  /\ \E r \in { refresh[s], "closed" } : refresh' = [refresh EXCEPT ![s] = r]
  /\ UNCHANGED << now, users, current_user, messages, messages_id_seq,
                  online_users, last_time, msg_box, delivered, init_seq, saves,
                  privateVars >>

\* lines 366-371: the login succeeds as user u, the name is added to
\* online_users, and load_messages raises
JoinLoadFail(s, u) ==
  /\ pc[s] = "login"
  /\ IF s = 1 THEN TRUE ELSE pc[s - 1] # "login"
  /\ u <= 1 + MaxOf({ current_user[o] : o \in Sessions })
  /\ current_user' = [current_user EXCEPT ![s] = u]
  /\ online_users' = online_users \cup { users[u].display_name }
  /\ pc' = [pc EXCEPT ![s] = "failed"]
  /\ UNCHANGED << now, users, messages, messages_id_seq, txn, refresh,
                  last_time, msg_box, delivered, init_seq, saves, privateVars >>

\* the sessions of the public chat, whose database operations may fail
NextFailures ==
  \/ Next
  \/ \E s \in Sessions :
       \/ SaveFail(s)
       \/ \E u \in DOMAIN users : JoinLoadFail(s, u)

SpecFailures == Init /\ [][NextFailures]_vars

(* ---------------------------- registration --------------------------- *)

\* the names typed into the registration form
Names == { "ann", SYSTEM }

\* lines 336-348 and register_user: the form takes any display_name; the
\* INSERT fails (IntegrityError, rollback) where the email is in use, and
\* otherwise the account takes the next id
Register(s, email, name) ==
  /\ pc[s] = "login"
  /\ Len(users) < MaxUsers
  /\ \A u \in DOMAIN users : users[u].email # email
  /\ users' = Append(users, [ email |-> email, display_name |-> name ])
  /\ UNCHANGED << now, pc, current_user, publicVars, privateVars >>

\* the program started on an empty database
InitRegister ==
  /\ now = 0
  /\ users = << >>
  /\ messages = {}
  /\ messages_id_seq = 1
  /\ friends = EmptyBag
  /\ add_result = [s \in Sessions |-> "none"]
  /\ private_messages = {}
  /\ private_messages_id_seq = 1
  /\ online_users = {}
  /\ pc = [s \in Sessions |-> "login"]
  /\ current_user = [s \in Sessions |-> 0]
  /\ txn = [s \in Sessions |-> NoTxn]
  /\ refresh = [s \in Sessions |-> "none"]
  /\ last_time = [s \in Sessions |-> Epoch]
  /\ msg_box = [s \in Sessions |-> <<>>]
  /\ private_chat = [s \in Sessions |-> 0]
  /\ private_box = [s \in Sessions |-> <<>>]
  /\ delivered = [s \in Sessions |-> <<>>]
  /\ init_seq = [s \in Sessions |-> [messages |-> 0, private_messages |-> 0]]
  /\ saves = 0

\* sessions that register, log in, send and poll
NextRegister ==
  \E s \in Sessions :
       \/ \E email \in 1 .. MaxUsers : \E name \in Names : Register(s, email, name)
       \/ \E u \in DOMAIN users : Join(s, u)
       \/ JoinCommit(s)
       \/ RefreshInit(s)
       \/ Poll(s)
       \/ \E text \in Texts : Send(s, text)
       \/ SendCommit(s)

SpecRegister == InitRegister /\ [][NextRegister]_vars

(* A database that has been in use: the messages table holds about         *)
(* HistoryLimit rows, one a minute, the newest a minute or more than a day  *)
(* old; users 1 and 2 are friends and have exchanged private messages, old  *)
(* (before the window) and new (inside it).                                 *)

HistoryStart == RetentionWindow

OldMessages(n) ==
  { [ tbl |-> "messages", id |-> i, username |-> IF i % 2 = 1 THEN "ann" ELSE "bob",
      text |-> << "hi" >>, created_at |-> HistoryStart + i ] : i \in 1 .. n }

OldPrivateMessages(clock) ==
  { [ tbl |-> "private_messages", id |-> 1, sender_id |-> 1, receiver_id |-> 2,
      text |-> << "hi" >>, created_at |-> clock - RetentionWindow - 2 ],
    [ tbl |-> "private_messages", id |-> 2, sender_id |-> 2, receiver_id |-> 1,
      text |-> << "hi" >>, created_at |-> clock - RetentionWindow - 1 ],
    [ tbl |-> "private_messages", id |-> 3, sender_id |-> 1, receiver_id |-> 2,
      text |-> << "hi" >>, created_at |-> clock - 2 ],
    [ tbl |-> "private_messages", id |-> 4, sender_id |-> 2, receiver_id |-> 1,
      text |-> << "hi" >>, created_at |-> clock - 1 ] }

InitHistory ==
  /\ \E n \in { HistoryLimit - 1, HistoryLimit + HistoryExtra } :
       /\ messages = OldMessages(n)
       /\ messages_id_seq = n + 1
       /\ now \in { HistoryStart + n + 1, HistoryStart + n + 1 + RetentionWindow }
  /\ private_messages \in SUBSET OldPrivateMessages(now)
  /\ private_messages_id_seq = 5
  /\ friends = SetToBag({ << 1, 2 >>, << 2, 1 >> })
  /\ add_result = [s \in Sessions |-> "none"]
  /\ users = UsersTable
  /\ online_users = {}
  /\ pc = [s \in Sessions |-> "login"]
  /\ current_user = [s \in Sessions |-> 0]
  /\ txn = [s \in Sessions |-> NoTxn]
  /\ refresh = [s \in Sessions |-> "none"]
  /\ last_time = [s \in Sessions |-> Epoch]
  /\ msg_box = [s \in Sessions |-> <<>>]
  /\ private_chat = [s \in Sessions |-> 0]
  /\ private_box = [s \in Sessions |-> <<>>]
  /\ delivered = [s \in Sessions |-> <<>>]
  /\ init_seq = [s \in Sessions |-> [messages |-> 0, private_messages |-> 0]]
  /\ saves = 0

\* sessions that join and open private chats
NextHistory ==
  \E s \in Sessions :
       \/ \E u \in DOMAIN users : Join(s, u)
       \/ JoinCommit(s)
       \/ \E f \in DOMAIN users : OpenPrivateChat(s, f)
       \/ ClosePrivateChat(s)

SpecHistory == InitHistory /\ [][NextHistory]_vars

(* ------------------------------ properties ---------------------------- *)

\* row m is among the rows of sequence q (of rows or of box entries)
Among(m, q) == \E i \in 1 .. Len(q) : q[i].tbl = m.tbl /\ q[i].id = m.id

\* lines 367-407: the session has added its name to online_users and has not
\* discarded it
Active(s) == pc[s] \in { "joining", "chat", "sending", "clearing", "private" }

C2_UniqueDisplayNames ==
  \A s1, s2 \in Sessions :
    (s1 # s2 /\ Active(s1) /\ Active(s2)) => display_name(s1) # display_name(s2)

\* C3: a private message is never shown to a third party.  Every row a
\* private chat shows, and every row load_private_messages returns to a user
\* for a friend the user can select, has the user as sender or receiver; and
\* what the public history and the poll loop show are rows of messages.
C3_PrivateStaysPrivate ==
  /\ \A s \in Sessions : \A i \in 1 .. Len(private_box[s]) :
       current_user[s] \in { private_box[s][i].sender_id, private_box[s][i].receiver_id }
  /\ \A c \in DOMAIN users : \A f \in get_friends(c) :
       \A h \in load_private_messages(c, f) : \A i \in 1 .. Len(h) :
         c \in { h[i].sender_id, h[i].receiver_id }
  /\ \A s \in Sessions :
       /\ \A i \in 1 .. Len(msg_box[s]) : msg_box[s][i].tbl = "messages"
       /\ \A i \in 1 .. Len(delivered[s]) : delivered[s][i].tbl = "messages"

\* a third user, polling the public chat, has opened a private chat with one
\* of the parties of a stored private message
C3_Witness ==
  \E s \in Sessions : \E m \in private_messages :
    /\ pc[s] = "private" /\ refresh[s] = "polling"
    /\ current_user[s] \notin { m.sender_id, m.receiver_id }
    /\ private_chat[s] \in { m.sender_id, m.receiver_id }

C5_CursorFollowsBatch ==
  [][ \A s \in Sessions :
        Poll(s) => \A batch \in NewMessages(last_time[s]) :
                     batch # <<>> => last_time'[s] = Last(batch).created_at ]_vars

\* C6: no self-delivery.  No row a session's poll loop has emitted, and no
\* entry it has put in the session's message box, has the session's name as
\* sender.
C6_NoSelfDelivery ==
  \A s \in Sessions :
    /\ \A i \in 1 .. Len(delivered[s]) : delivered[s][i].username # display_name(s)
    /\ \A i \in 1 .. Len(msg_box[s]) :
         msg_box[s][i].via = "poll" => msg_box[s][i].username # display_name(s)

\* a message of the session's own, committed after the cursor was
\* initialised, is stored, and the loop has emitted a row committed after it
\* and not older
C6_Witness ==
  \E s \in Sessions :
    /\ refresh[s] = "polling"
    /\ \E m \in messages :
         /\ m.username = display_name(s)
         /\ m.id >= init_seq[s].messages
         /\ \E i \in 1 .. Len(delivered[s]) :
              delivered[s][i].id > m.id /\ delivered[s][i].created_at >= m.created_at

\* C7: no message is delivered twice.  The rows a session's poll loop has
\* emitted are pairwise distinct.
C7_NoDoubleDelivery ==
  \A s \in Sessions : \A i, j \in 1 .. Len(delivered[s]) :
    i # j => delivered[s][i].id # delivered[s][j].id

\* a loop has emitted two rows, both still stored, and goes on polling
C7_Witness ==
  \E s \in Sessions :
    /\ refresh[s] = "polling"
    /\ Len(delivered[s]) >= 2
    /\ \A i \in 1 .. Len(delivered[s]) : delivered[s][i] \in messages

\* C8: private messages are delivered by polling.  A private message sent
\* to a user whose session was polling when it was sent has been emitted by
\* that session's poll loop or is among the rows its next poll fetches; and
\* no loop of a third user has emitted it.
C8_PrivateDeliveredByPoll ==
  \A s \in Sessions :
    refresh[s] = "polling" =>
      \A m \in private_messages :
        /\ (m.receiver_id = current_user[s] /\ m.id >= init_seq[s].private_messages) =>
             \/ Among(m, delivered[s])
             \/ \E batch \in NewMessages(last_time[s]) : Among(m, batch)
        /\ current_user[s] \notin { m.sender_id, m.receiver_id } =>
             ~ Among(m, delivered[s])

\* C9: past HistoryLimit messages in the window, the history a join shows is
\* the HistoryLimit most recent of them in ascending order: no message of
\* the window that is left out is newer than one that is shown.
C9_HistoryIsMostRecent ==
  [][ \A s \in Sessions :
        (\E u \in DOMAIN users : Join(s, u)) =>
          LET window == { m \in messages : InWindow(m) }
              box == msg_box'[s]
          IN  Cardinality(window) > HistoryLimit =>
                /\ Len(box) = HistoryLimit
                /\ \A i, j \in 1 .. Len(box) :
                     i < j => box[i].created_at <= box[j].created_at
                /\ \A m \in window :
                     ~ Among(m, box) =>
                       \A i \in 1 .. Len(box) : m.created_at <= box[i].created_at ]_vars

\* C10: history never returns an expired message.  What a join shows of
\* messages, and what opening a private chat shows of private_messages, are
\* rows with created_at in the window, whoever sent them; and every row of
\* the conversation in the window is shown (of messages, while the window
\* holds no more than HistoryLimit).
C10_HistoryInWindow ==
  [][ \A s \in Sessions :
        /\ (\E u \in DOMAIN users : Join(s, u)) =>
             LET window == { m \in messages : InWindow(m) }
                 box == msg_box'[s]
             IN  /\ \A i \in 1 .. Len(box) : box[i].created_at >= now - RetentionWindow
                 /\ Cardinality(window) <= HistoryLimit =>
                      \A m \in window : Among(m, box)
        /\ (\E f \in DOMAIN users : OpenPrivateChat(s, f)) =>
             LET user_id == current_user[s]
                 friend_id == private_chat'[s]
                 box == private_box'[s]
             IN  /\ \A i \in 1 .. Len(box) : box[i].created_at >= now - RetentionWindow
                 /\ \A m \in private_messages :
                      ( /\ { m.sender_id, m.receiver_id } = { user_id, friend_id }
                        /\ InWindow(m) ) => Among(m, box) ]_vars

\* C11: a request confers nothing until it is accepted.  The program has no
\* step by which the other user accepts, so every row of friends is a
\* request not yet accepted: the user it names is not in the requester's
\* friend list, no session of the requester is in a private chat with that
\* user, and the requester has sent that user no private message.
C11_RequestConfersNothing ==
  \A a, b \in DOMAIN users :
    BagIn(<< a, b >>, friends) =>
      /\ b \notin get_friends(a)
      /\ \A s \in Sessions : current_user[s] = a => private_chat[s] # b
      /\ \A m \in private_messages : ~ (m.sender_id = a /\ m.receiver_id = b)

\* C12: the friend list is symmetric.  Where friends holds a row for
\* (a, b), get_friends(a) contains b and get_friends(b) contains a.
C12_FriendListSymmetric ==
  \A a, b \in DOMAIN users :
    BagIn(<< a, b >>, friends) => b \in get_friends(a) /\ a \in get_friends(b)

\* C13: add_friend is idempotent.  The table never holds two rows for a
\* pair; a call for a pair the table holds reports failure and leaves the
\* table as it was; a call for a new pair leaves one row for it and the row
\* of the opposite pair as it was.
C13_AddFriendIdempotent ==
  /\ [](\A a, b \in DOMAIN users : CopiesIn(<< a, b >>, friends) <= 1)
  /\ [][ \A s \in Sessions : \A f \in DOMAIN users :
           AddFriend(s, f) =>
             LET a == current_user[s]
             IN  /\ CopiesIn(<< a, f >>, friends') = 1
                 /\ CopiesIn(<< f, a >>, friends') = CopiesIn(<< f, a >>, friends)
                 /\ BagIn(<< a, f >>, friends) =>
                      add_result'[s] = "exists" /\ friends' = friends ]_vars

\* a session has been told that the pair it asked for is in the table
C13_Witness ==
  \E s \in Sessions :
    /\ add_result[s] = "exists"
    /\ \E f \in DOMAIN users : BagIn(<< current_user[s], f >>, friends)

\* C14: the sentinel is never a user's name.  No active session has SYSTEM
\* as its display_name, and every stored message whose username is SYSTEM
\* is an announcement of a join, a leave or a clear.
C14_SentinelNeverClaimed ==
  /\ \A s \in Sessions : Active(s) => display_name(s) # SYSTEM
  /\ \A m \in messages :
       m.username = SYSTEM => m.text[1] \in { "joined", "left", "cleared" }

\* C15: a leave cancels the poll loop first.  Whenever a session has
\* discarded its name by leaving, its poll loop is closed, and from the
\* leave on nothing is emitted to its message box.
C15_LeaveCancelsLoop ==
  /\ [](\A s \in Sessions : pc[s] \in { "leaving", "left" } => refresh[s] = "closed")
  /\ [][ \A s \in Sessions :
           pc[s] \in { "leaving", "left" } =>
             msg_box'[s] = msg_box[s] /\ delivered'[s] = delivered[s] ]_vars

\* a session whose loop had initialised its cursor has left, and a message
\* of another sender lies after the cursor
C15_Witness ==
  \E s \in Sessions :
    /\ pc[s] = "left"
    /\ init_seq[s].messages > 0
    /\ \E m \in messages : m.username # display_name(s) /\ m.created_at > last_time[s]

\* C18: the cursor never decreases.  No step lowers a session's last_time,
\* also after clear_chat has emptied the table.
C18_CursorMonotone ==
  [][ \A s \in Sessions : last_time'[s] >= last_time[s] ]_vars

\* a loop that has emitted a row polls a table that a clear has emptied
C18_Witness ==
  \E s \in Sessions :
    /\ refresh[s] = "polling"
    /\ Len(delivered[s]) >= 1
    /\ last_time[s] > Epoch
    /\ messages = {}

\* C19: join leaves no gap between history and polling.  When a session's
\* poll loop initialises its cursor, every stored message of another sender
\* that the session's box does not show, which is one committed after the
\* history was loaded, lies after the cursor, where the loop fetches it.
C19_NoGapAtJoin ==
  [][ \A s \in Sessions :
        RefreshInit(s) =>
          \A m \in messages :
            (m.username # display_name(s) /\ ~ Among(m, msg_box[s])) =>
              m.created_at > last_time'[s] ]_vars

\* C20: a stored message appears at most once in a message box.  No two
\* entries of a session's box, local renders and poll emissions together,
\* show the same stored row (a local render made before the row is saved
\* carries no id and is left out).
C20_ShownOnce ==
  \A s \in Sessions : \A i, j \in 1 .. Len(msg_box[s]) :
    (i # j /\ msg_box[s][i].id # 0) => msg_box[s][i].id # msg_box[s][j].id

\* the entries of box q equal to e
Count(q, e) == Cardinality({ i \in 1 .. Len(q) : q[i] = e })

\* C16: every way a session ends releases its presence.  Every name in
\* online_users is the display_name of a session that has joined and not
\* ended, and the poll loop of a session that has ended is closed.
C16_PresenceReleased ==
  /\ \A name \in online_users :
       \E s \in Sessions : Active(s) /\ display_name(s) = name
  /\ \A s \in Sessions :
       pc[s] \in { "leaving", "left", "gone" } => refresh[s] = "closed"

\* C17: a failed operation commits no partial state.  When save_message of
\* a send fails, the sender's box loses the render of the message and no
\* other box changes; when load_messages or save_message fails during a
\* join, the joining name, held by no other active session, is not in
\* online_users afterwards.
C17_FailureLeavesNothing ==
  [][ \A s \in Sessions :
        /\ (SaveFail(s) /\ pc[s] = "sending") =>
             LET shown == Local(display_name(s), txn[s].text, 0)[1]
             IN  /\ Count(msg_box'[s], shown) = Count(msg_box[s], shown) - 1
                 /\ \A o \in Sessions \ {s} : msg_box'[o] = msg_box[o]
        /\ (SaveFail(s) /\ pc[s] = "joining") =>
             \/ \E o \in Sessions \ {s} : Active(o) /\ display_name(o) = display_name(s)
             \/ display_name(s) \notin online_users'
        /\ \A u \in DOMAIN users :
             JoinLoadFail(s, u) =>
               \/ \E o \in Sessions \ {s} :
                    Active(o) /\ display_name(o) = users[u].display_name
               \/ users[u].display_name \notin online_users' ]_vars

=============================================================================
